---- MODULE Spec2Model ----
(***************************************************************************)
(* A model of probe_runner: the vLLM ModelHandler (models.py), the         *)
(* transformers ModelHandler (transformers_models.py), the                 *)
(* ActivationExtractor facade and the probe evaluator                      *)
(* (activation_extraction.py) and the activation/probe CLI (inference.py). *)
(*                                                                         *)
(* Python's None is written 0 where the value is an object identity        *)
(* (stores and hook managers are numbered from 1) and "None" where the     *)
(* value is a name (network modules, request ids, exceptions).             *)
(***************************************************************************)
EXTENDS Integers, Sequences, FiniteSets, TLC

VARIABLES
    extractor,  \* the fields of the ActivationExtractor object
    hooklib,    \* vllm.v1.worker.activation_hooks: hook managers and stores
    lock,       \* ActivationExtractor._lock: 0 when free, else the holder
    handler,    \* the fields of the vLLM ModelHandler object
    thandler,   \* the fields of the transformers ModelHandler object
    cache,      \* the HF_CACHE_DIR directory on disk
    out,        \* what has been printed / echoed so far (message tags)
    last,       \* the call that finished last and how it ended
    hist,       \* the name of the call that finished before `last`
    scope,      \* position of the with-block over the extractor
    pending,    \* the exception raised inside the with-block body
    cli,        \* inference.py main(): its options and its position
    probe,      \* the probe functions: their arguments and their result
    pc,         \* per thread: the statement it is about to execute
    targ        \* per thread: the argument of the call it is executing

vars == <<extractor, hooklib, lock, handler, thandler, cache, out, last,
          hist, scope, pending, cli, probe, pc, targ>>

(***************************************************************************)
(* Bounds.                                                                 *)
(***************************************************************************)
\* hook managers ever created by one extractor
MaxMgrs == 3
\* activation stores ever created by one extractor
MaxStores == 2
\* length of the --extract-layers option value
MaxOptLen == 3
\* largest absolute value of a tensor entry
MaxVal == 1
\* largest activation length D
MaxDim == 2
\* largest number of probe rows R
MaxRows == 2
\* longest organisation or model part of a name given to the cache locator
MaxSeg == 3

(***************************************************************************)
(* Values.                                                                 *)
(***************************************************************************)
\* network modules an engine may expose, one per attribute chain
Modules == {"Mg", "Md", "Mw"}
\* modules a caller may hand to register_model directly
UserModules == {"Mg", "Md"}
\* request ids: generate() derives "req_<id(prompt)>" from the prompt object
RequestIds == {"req_1", "req_2"}
Threads == {1, 2}

\* character strings are sequences of one-character strings
ModelsPrefix == <<"m", "o", "d", "e", "l", "s", "-", "-">>
ModelNames == { <<"a", "/", "t">>, <<"a", "/", "u">> }
\* directory entries that may be present in the cache directory
OtherEntries == { <<"d", "a", "t", "a">> }

(***************************************************************************)
(* Cache locator (models.py 152-171, transformers_models.py 66-79).        *)
(***************************************************************************)
RECURSIVE replace_slash(_)
\* str.replace("/", "--")
replace_slash(name) ==
    IF name = <<>> THEN <<>>
    ELSE (IF Head(name) = "/" THEN <<"-", "-">> ELSE <<Head(name)>>)
         \o replace_slash(Tail(name))

\* a transform that puts a single "-" in the place of "/"
hf_to_cache_format_single_dash(model_name) ==
    ModelsPrefix \o [i \in 1..Len(model_name) |->
                       IF model_name[i] = "/" THEN "-" ELSE model_name[i]]

\* "models--" + model_name.replace("/", "--")
hf_to_cache_format(model_name) == ModelsPrefix \o replace_slash(model_name)

\* str.startswith
startswith(item, prefix) ==
    /\ Len(item) >= Len(prefix)
    /\ SubSeq(item, 1, Len(prefix)) = prefix

\* a lookup that only tests that the cache directory exists
check_model_in_cache_dir_only(c, model_name) == c.exists

\* os.path.exists(os.path.join(HF_CACHE_DIR, cache_model_name))
check_model_in_cache(c, model_name) ==
    c.exists /\ hf_to_cache_format(model_name) \in c.entries

\* the listing is returned as the set of its items
list_models_in_cache(c) ==
    IF ~c.exists THEN {}
    ELSE { item \in c.entries : startswith(item, ModelsPrefix) }

\* the cache directory is absent, or holds some model entries and possibly
\* entries that are not models
Caches ==
    { [exists |-> FALSE, entries |-> {}] } \cup
    { [exists |-> TRUE,
       entries |-> { hf_to_cache_format(n) : n \in ns } \cup o] :
         ns \in SUBSET ModelNames, o \in {{}, OtherEntries} }

\* the engine's download into download_dir creates the model's entry
download(c, model_name) ==
    [exists |-> TRUE, entries |-> c.entries \cup {hf_to_cache_format(model_name)}]

(***************************************************************************)
(* The external hook library, as the extractor uses it.  A hook manager is *)
(* built over one store; register_hooks installs its hooks on a module,    *)
(* remove_hooks takes them off; the request context is per manager.  A     *)
(* state s is the pair [x |-> extractor fields, h |-> library state].      *)
(***************************************************************************)
NoLib == [mgrs |-> <<>>, stores |-> <<>>]

\* a lock that never makes its caller wait
can_acquire_always(l) == TRUE

\* with self._lock: the caller enters when no thread holds the lock
can_acquire(l) == l = 0

\* ActivationStore()
NewStore(h) == [h EXCEPT !.stores = Append(@, {})]
\* ActivationHookManager(activation_store=store, extract_layers=...)
NewManager(h, store) ==
    [h EXCEPT !.mgrs = Append(@, [store |-> store, hooked |-> "None",
                                  ctx |-> "None"])]
remove_hooks(h, k) == [h EXCEPT !.mgrs[k].hooked = "None"]
\* (registering on None, which load_model can pass, installs no hook)
register_hooks(h, k, model) == [h EXCEPT !.mgrs[k].hooked = model]
mgr_set_request_context(h, k, rid) == [h EXCEPT !.mgrs[k].ctx = rid]
mgr_clear_request_context(h, k) == [h EXCEPT !.mgrs[k].ctx = "None"]
clear_all(h, st) == [h EXCEPT !.stores[st] = {}]
clear_request(h, st, rid) == [h EXCEPT !.stores[st] = @ \ {rid}]

\* the hook sets that are installed on some module
Installed(h) == { k \in 1..Len(h.mgrs) : h.mgrs[k].hooked # "None" }

\* a forward pass over the modules ms: every installed hook on one of them
\* whose manager has a request context writes that request's activations
\* into its manager's store
forward(h, ms) ==
    [h EXCEPT !.stores =
        [st \in 1..Len(h.stores) |->
            h.stores[st] \cup
            { h.mgrs[k].ctx : k \in { j \in Installed(h) :
                                        /\ h.mgrs[j].hooked \in ms
                                        /\ h.mgrs[j].ctx # "None"
                                        /\ h.mgrs[j].store = st } }]]

(***************************************************************************)
(* ActivationExtractor (activation_extraction.py 27-109).                  *)
(***************************************************************************)
\* __init__
NewExtractor(extract_layers, enabled) ==
    [exists |-> TRUE, enabled |-> enabled, extract_layers |-> extract_layers,
     activation_store |-> 0, hook_manager |-> 0, model |-> "None"]

NoExtractor ==
    [exists |-> FALSE, enabled |-> FALSE, extract_layers |-> <<>>,
     activation_store |-> 0, hook_manager |-> 0, model |-> "None"]

\* self.activation_store = ActivationStore(), lines 54 and 80-81
store_new(s) ==
    [x |-> [s.x EXCEPT !.activation_store = Len(s.h.stores) + 1],
     h |-> NewStore(s.h)]
\* register_model, lines 53-54
reg_store(s) == IF s.x.activation_store = 0 THEN store_new(s) ELSE s
\* a registration that leaves the previous hooks in place
reg_remove_skipped(s) == s

\* register_model, lines 56-57
reg_remove(s) ==
    IF s.x.hook_manager # 0
    THEN [s EXCEPT !.h = remove_hooks(s.h, s.x.hook_manager)]
    ELSE s
\* register_model, line 59
reg_model(s, model) == [s EXCEPT !.x.model = model]
\* register_model, lines 60-63
reg_manager(s) ==
    [x |-> [s.x EXCEPT !.hook_manager = Len(s.h.mgrs) + 1],
     h |-> NewManager(s.h, s.x.activation_store)]
\* register_model, line 64
reg_hooks(s, model) ==
    [s EXCEPT !.h = register_hooks(s.h, s.x.hook_manager, model)]

register_model(s, model) ==
    IF ~s.x.enabled THEN s
    ELSE reg_hooks(reg_manager(reg_model(reg_remove(reg_store(s)), model)),
                   model)

set_request_context(s, rid) ==
    IF s.x.hook_manager # 0
    THEN [s EXCEPT !.h = mgr_set_request_context(s.h, s.x.hook_manager, rid)]
    ELSE s

clear_request_context(s) ==
    IF s.x.hook_manager # 0
    THEN [s EXCEPT !.h = mgr_clear_request_context(s.h, s.x.hook_manager)]
    ELSE s

get_activation_store(s) ==
    IF s.x.activation_store = 0 THEN store_new(s) ELSE s

\* request_id is "None" for clear_activations()
clear_activations(s, request_id) ==
    IF s.x.activation_store = 0 THEN s
    ELSE IF request_id # "None"
         THEN [s EXCEPT !.h = clear_request(s.h, s.x.activation_store,
                                            request_id)]
         ELSE [s EXCEPT !.h = clear_all(s.h, s.x.activation_store)]

\* cleanup, line 97
cln_remove(s) == [s EXCEPT !.h = remove_hooks(s.h, s.x.hook_manager)]
\* a cleanup that forgets to drop the hook manager
cln_manager_kept(s) == s

\* cleanup, line 98
cln_manager(s) == [s EXCEPT !.x.hook_manager = 0]
\* cleanup, lines 96-98
cln_hooks(s) ==
    IF s.x.hook_manager # 0 THEN cln_manager(cln_remove(s)) ELSE s
\* cleanup, lines 99-100
cln_store(s) ==
    IF s.x.activation_store # 0
    THEN [s EXCEPT !.h = clear_all(s.h, s.x.activation_store)]
    ELSE s
\* cleanup, line 101
cln_model(s) == [s EXCEPT !.x.model = "None"]

cleanup(s) == cln_model(cln_store(cln_hooks(s)))

\* an __exit__ that returns a true value
exit_returns_true == TRUE

\* __exit__ returns what cleanup() leaves and itself returns None, which
\* is false: the with statement does not suppress the exception
exit_returns == FALSE
exit_(s) == cleanup(s)

(***************************************************************************)
(* vLLM ModelHandler (models.py 14-219).                                   *)
(***************************************************************************)
\* What the attribute chains of llm_engine look like.  get_model is
\* "absent" (no such attribute), "None" or the module it returns; driver and
\* workers are "absent", "incomplete" (no model_runner, or a model_runner
\* without a model attribute), "None" or the module at the end of the chain;
\* workers may also be "empty" (an empty list).
Engines ==
    { [get_model |-> g, executor |-> FALSE, driver |-> "absent",
       workers |-> "absent"] : g \in {"absent", "None", "Mg"} }
    \cup
    { [get_model |-> g, executor |-> TRUE, driver |-> d, workers |-> w] :
        g \in {"absent", "None", "Mg"},
        d \in {"absent", "incomplete", "None", "Md"},
        w \in {"absent", "empty", "incomplete", "None", "Mw"} }

NoEngine ==
    [get_model |-> "absent", executor |-> FALSE, driver |-> "absent",
     workers |-> "absent"]

\* the layer filter is a sequence of layer indices; <<>> stands for None
\* (main() never passes an empty list)
LayerFilters == { <<>>, <<0, 1>> }

NoHandler ==
    [exists |-> FALSE, model_name |-> <<>>, local_files_only |-> FALSE,
     extract_activations |-> FALSE, extract_layers |-> <<>>,
     loaded |-> FALSE, engine |-> NoEngine, activation_extractor |-> FALSE]

NoError == [cache_dir |-> "None", available |-> {}]
NoCall == [op |-> "none", raised |-> "None", text |-> "None",
           err |-> NoError, llm_calls |-> 0]

\* load_model, lines 112-149: the hooks registration.  The result is the
\* extractor state and the messages printed.
hook_registration(s, e) ==
    IF e.get_model # "absent"
    THEN IF e.get_model # "None"
         THEN [s |-> register_model(s, e.get_model),
               out |-> <<"registered via get_model">>]
         ELSE [s |-> s, out |-> <<>>]
    ELSE IF e.executor
    THEN IF e.driver # "absent"
         THEN IF e.driver # "incomplete"
              THEN [s |-> register_model(s, e.driver),
                    out |-> <<"registered via driver_worker">>]
              ELSE [s |-> s, out |-> <<>>]
         ELSE IF e.workers # "absent"
         THEN IF e.workers # "empty" /\ e.workers # "incomplete"
              THEN [s |-> register_model(s, e.workers),
                    out |-> <<"registered via workers[0]">>]
              ELSE [s |-> s, out |-> <<>>]
         ELSE [s |-> s, out |-> <<>>]
    ELSE [s |-> s, out |-> <<"Warning: Could not access model">>]

\* __init__ and load_model, lines 30-40 and 81-149.  a holds the
\* constructor's arguments, c is the cache directory, e the engine that
\* LLM() builds, load_ok whether LLM() returns.
load_model(a, c, h, e, load_ok) ==
    LET model_name == a.model_name
        local_files_only == a.local_files_only
        extract_activations == a.extract_activations
        extract_layers == a.extract_layers
        hd0 == [exists |-> FALSE, model_name |-> model_name,
                local_files_only |-> local_files_only,
                extract_activations |-> extract_activations,
                extract_layers |-> extract_layers, loaded |-> FALSE,
                engine |-> NoEngine, activation_extractor |-> FALSE]
        s0 == [x |-> NoExtractor, h |-> h]
        incache == check_model_in_cache(c, model_name)
        msgs == <<"Loading model">>
                \o (IF ~incache THEN <<"Model not in cache, downloading">>
                    ELSE <<>>)
    IN
    IF local_files_only /\ ~incache
    THEN [handler |-> hd0, s |-> s0, cache |-> c, out |-> <<>>,
          call |-> [op |-> "construct", raised |-> "ValueError",
                    text |-> "None",
                    err |-> [cache_dir |-> "HF_CACHE_DIR",
                             available |-> list_models_in_cache(c)],
                    llm_calls |-> 0]]
    ELSE IF ~load_ok
    THEN [handler |-> hd0, s |-> s0, cache |-> c, out |-> msgs,
          call |-> [op |-> "construct", raised |-> "EngineError",
                    text |-> "None", err |-> NoError, llm_calls |-> 1]]
    ELSE
    LET s1 == IF extract_activations
              THEN [s0 EXCEPT !.x = NewExtractor(extract_layers, TRUE)]
              ELSE s0
        r == IF s1.x.exists THEN hook_registration(s1, e)
             ELSE [s |-> s1, out |-> <<>>]
    IN [handler |-> [hd0 EXCEPT !.exists = TRUE, !.loaded = TRUE,
                                !.engine = e,
                                !.activation_extractor = s1.x.exists],
        s |-> r.s, cache |-> download(c, model_name),
        out |-> msgs \o r.out,
        call |-> [op |-> "construct", raised |-> "None", text |-> "None",
                  err |-> NoError, llm_calls |-> 1]]

\* generate, lines 174-213.  outcome is "ok", "bad_params" (SamplingParams
\* raises) or "engine_error" (the engine call or the indexing of its
\* outputs raises).
generate(hd, s, rid, outcome) ==
    LET s1 == IF hd.activation_extractor
              THEN set_request_context(s, rid) ELSE s
        s2 == [s1 EXCEPT !.h = forward(s1.h, Modules)]
        s3 == IF hd.activation_extractor
              THEN clear_request_context(s2) ELSE s2
    IN
    IF outcome = "bad_params"
    THEN [s |-> s, call |-> [op |-> "generate", raised |-> "ParamsError",
                             text |-> "None", err |-> NoError,
                             llm_calls |-> 0]]
    ELSE IF outcome = "engine_error"
    THEN [s |-> s1, call |-> [op |-> "generate", raised |-> "EngineError",
                              text |-> "None", err |-> NoError,
                              llm_calls |-> 0]]
    ELSE [s |-> s3, call |-> [op |-> "generate", raised |-> "None",
                              text |-> "generated_text", err |-> NoError,
                              llm_calls |-> 0]]

\* ModelHandler.get_activation_store, lines 215-219
handler_get_activation_store(hd, s) ==
    IF hd.activation_extractor THEN get_activation_store(s) ELSE s

(***************************************************************************)
(* transformers ModelHandler (transformers_models.py 32-98).               *)
(***************************************************************************)
NoTHandler ==
    [exists |-> FALSE, model_name |-> <<>>, local_files_only |-> FALSE,
     loaded |-> FALSE]

\* __init__ and load_model, lines 33-64
t_load_model(model_name, local_files_only, c) ==
    LET hd0 == [exists |-> FALSE, model_name |-> model_name,
                local_files_only |-> local_files_only, loaded |-> FALSE]
    IN
    IF check_model_in_cache(c, model_name)
    THEN [thandler |-> [hd0 EXCEPT !.exists = TRUE, !.loaded = TRUE],
          cache |-> c,
          call |-> [op |-> "t_construct", raised |-> "None",
                    text |-> "None", err |-> NoError, llm_calls |-> 1]]
    ELSE IF local_files_only
    THEN [thandler |-> hd0, cache |-> c,
          call |-> [op |-> "t_construct", raised |-> "ValueError",
                    text |-> "None",
                    err |-> [cache_dir |-> "HF_CACHE_DIR",
                             available |-> list_models_in_cache(c)],
                    llm_calls |-> 0]]
    ELSE [thandler |-> [hd0 EXCEPT !.exists = TRUE, !.loaded = TRUE],
          cache |-> download(c, model_name),
          call |-> [op |-> "t_construct", raised |-> "None",
                    text |-> "None", err |-> NoError, llm_calls |-> 1]]

(***************************************************************************)
(* The two model handlers driven by a caller: construction, generation     *)
(* and the calls a caller makes on handler.activation_extractor.           *)
(***************************************************************************)
NoCli == [at |-> "none", extract_activations |-> FALSE,
          extract_layers |-> <<>>, probe_path |-> <<>>, probe_layer |-> <<>>,
          extract_layers_list |-> <<>>]
NoProbe == [at |-> "none"]

S == [x |-> extractor, h |-> hooklib]

Init ==
    /\ extractor = NoExtractor
    /\ hooklib = NoLib
    /\ lock = 0
    /\ handler = NoHandler
    /\ thandler = NoTHandler
    /\ cache \in Caches
    /\ out = <<>>
    /\ last = NoCall
    /\ hist = "none"
    /\ scope = "none"
    /\ pending = "None"
    /\ cli = NoCli
    /\ probe = NoProbe
    /\ pc = [t \in Threads |-> "idle"]
    /\ targ = [t \in Threads |-> "None"]

\* ModelHandler(model_name, local_files_only, extract_activations=...,
\* extract_layers=...)
Construct ==
    /\ ~handler.exists /\ ~thandler.exists
    /\ \E model_name \in ModelNames, local_files_only \in BOOLEAN,
          extract_activations \in BOOLEAN, load_ok \in BOOLEAN :
       \E extract_layers \in (IF extract_activations THEN LayerFilters
                               ELSE {<<>>}),
          e \in (IF load_ok THEN Engines ELSE {NoEngine}) :
         LET r == load_model([model_name |-> model_name,
                              local_files_only |-> local_files_only,
                              extract_activations |-> extract_activations,
                              extract_layers |-> extract_layers],
                             cache, hooklib, e, load_ok)
         IN /\ handler' = r.handler
            /\ extractor' = r.s.x
            /\ hooklib' = r.s.h
            /\ cache' = r.cache
            /\ out' = r.out
            /\ last' = r.call
    /\ UNCHANGED <<lock, thandler, hist, scope, pending, cli, probe, pc, targ>>

\* handler.generate(prompt)
Generate ==
    /\ handler.exists
    /\ \E rid \in RequestIds, outcome \in {"ok", "bad_params", "engine_error"} :
         LET r == generate(handler, S, rid, outcome)
         IN /\ extractor' = r.s.x
            /\ hooklib' = r.s.h
            /\ last' = r.call
    /\ out' = <<>>
    /\ UNCHANGED <<lock, handler, thandler, cache, hist, scope, pending, cli, probe,
                   pc, targ>>

\* handler.get_activation_store()
HandlerGetActivationStore ==
    /\ handler.exists
    /\ LET s == handler_get_activation_store(handler, S)
       IN /\ extractor' = s.x
          /\ hooklib' = s.h
    /\ last' = [NoCall EXCEPT !.op = "get_activation_store"]
    /\ out' = <<>>
    /\ UNCHANGED <<lock, handler, thandler, cache, hist, scope, pending, cli, probe,
                   pc, targ>>

\* handler.activation_extractor.cleanup()
HandlerCleanup ==
    /\ handler.exists /\ handler.activation_extractor
    /\ LET s == cleanup(S)
       IN /\ extractor' = s.x
          /\ hooklib' = s.h
    /\ last' = [NoCall EXCEPT !.op = "cleanup"]
    /\ out' = <<>>
    /\ UNCHANGED <<lock, handler, thandler, cache, hist, scope, pending, cli, probe,
                   pc, targ>>

\* transformers_models.ModelHandler(model_name, local_files_only)
TConstruct ==
    /\ ~handler.exists /\ ~thandler.exists
    /\ \E model_name \in ModelNames, local_files_only \in BOOLEAN :
         LET r == t_load_model(model_name, local_files_only, cache)
         IN /\ thandler' = r.thandler
            /\ cache' = r.cache
            /\ last' = r.call
    /\ out' = <<>>
    /\ UNCHANGED <<extractor, hooklib, lock, handler, hist, scope, pending, cli,
                   probe, pc, targ>>

Next ==
    \/ Construct
    \/ Generate
    \/ HandlerGetActivationStore
    \/ HandlerCleanup
    \/ TConstruct

Spec == Init /\ [][Next]_vars

(***************************************************************************)
(* Properties of the model handlers.                                       *)
(***************************************************************************)
\* the request context of the extractor's hook manager
CurrentContext == hooklib.mgrs[extractor.hook_manager].ctx

\* C1: every generate() call made while the handler has an extractor with
\* registered hooks ends with the request context cleared, whether the
\* engine call returned or raised.
C1Claim ==
    ( /\ last.op = "generate"
      /\ handler.activation_extractor
      /\ extractor.hook_manager # 0
      /\ extractor.hook_manager \in Installed(hooklib) )
    => CurrentContext = "None"

\* what each attribute chain of the engine resolves to, in the order tried
Chains(e) ==
    << e.get_model,
       IF e.executor THEN e.driver ELSE "absent",
       IF e.executor THEN e.workers ELSE "absent" >>
ResolvingChains(e) == { i \in 1..3 : Chains(e)[i] \in Modules }
EarliestChain(e) ==
    CHOOSE i \in ResolvingChains(e) : \A j \in ResolvingChains(e) : i <= j

\* C6: after a construction with extraction enabled, when at least one
\* attribute chain resolves to a module, hooks are registered exactly once,
\* on the module of the earliest resolving chain.
C6Claim ==
    ( /\ last.op = "construct" /\ last.raised = "None"
      /\ handler.extract_activations
      /\ ResolvingChains(handler.engine) # {} )
    => /\ Len(hooklib.mgrs) = 1
       /\ Installed(hooklib) = {1}
       /\ hooklib.mgrs[1].hooked
            = Chains(handler.engine)[EarliestChain(handler.engine)]

Printed(msg) == \E i \in 1..Len(out) : out[i] = msg

\* C7: when construction with extraction enabled finds no attribute chain
\* resolving to a module, it succeeds, prints the warning and leaves no
\* hooks installed; generation afterwards captures nothing.
C7Claim ==
    ( /\ handler.exists /\ handler.extract_activations
      /\ ResolvingChains(handler.engine) = {} )
    => /\ last.op = "construct" =>
            (last.raised = "None" /\ Printed("Warning: Could not access model"))
       /\ Installed(hooklib) = {}
       /\ \A st \in 1..Len(hooklib.stores) : hooklib.stores[st] = {}
       /\ (last.op = "generate" /\ last.raised = "None")
            => last.text = "generated_text"

\* the model entries of a cache directory
ModelEntries(c) ==
    { item \in c.entries :
        Len(item) >= 8 /\ \A i \in 1..8 : item[i] = ModelsPrefix[i] }

\* what a construction step that must fail leaves behind
CacheOnlyFailure(call, c) ==
    /\ call.raised = "ValueError"
    /\ call.err.cache_dir = "HF_CACHE_DIR"
    /\ call.err.available = (IF c.exists THEN ModelEntries(c) ELSE {})
    /\ call.llm_calls = 0

\* C8: a construction in cache-only mode of a model whose cache entry is
\* absent raises the ValueError naming the cache directory and the cached
\* models, with no engine loaded and no extractor or hook created; any
\* other construction does not raise it and goes on to load the engine.
C8Theorem ==
    [][ /\ last'.op = "construct" =>
            IF handler'.local_files_only
               /\ ~(cache.exists
                    /\ hf_to_cache_format(handler'.model_name) \in cache.entries)
            THEN /\ CacheOnlyFailure(last', cache)
                 /\ ~handler'.exists /\ ~handler'.loaded
                 /\ ~extractor'.exists
                 /\ hooklib' = hooklib
            ELSE last'.raised # "ValueError" /\ last'.llm_calls = 1
        /\ last'.op = "t_construct" =>
            IF thandler'.local_files_only
               /\ ~(cache.exists
                    /\ hf_to_cache_format(thandler'.model_name) \in cache.entries)
            THEN /\ CacheOnlyFailure(last', cache)
                 /\ ~thandler'.exists /\ ~thandler'.loaded
            ELSE last'.raised # "ValueError" /\ last'.llm_calls = 1
      ]_vars

\* a cache-only construction has failed and listed a cached model
C8Witness ==
    /\ last.op \in {"construct", "t_construct"}
    /\ last.raised = "ValueError"
    /\ last.err.available # {}
    /\ ~handler.exists /\ ~thandler.exists

(***************************************************************************)
(* One ActivationExtractor driven by a single caller, call after call,     *)
(* optionally inside a with-block.                                         *)
(***************************************************************************)
InitExt ==
    /\ \E enabled \in BOOLEAN : extractor = NewExtractor(<<>>, enabled)
    /\ hooklib = NoLib
    /\ lock = 0
    /\ handler = NoHandler
    /\ thandler = NoTHandler
    /\ cache = [exists |-> FALSE, entries |-> {}]
    /\ out = <<>>
    /\ last = NoCall
    /\ hist = "none"
    /\ scope = "none"
    /\ pending = "None"
    /\ cli = NoCli
    /\ probe = NoProbe
    /\ pc = [t \in Threads |-> "idle"]
    /\ targ = [t \in Threads |-> "None"]

\* an exception raised in the with-block body is on its way to __exit__
Unwinding == scope = "inside" /\ pending # "None"

\* the caller's call op has returned, leaving the extractor state s
Returned(op, s) ==
    /\ extractor' = s.x
    /\ hooklib' = s.h
    /\ last' = [NoCall EXCEPT !.op = op]
    /\ hist' = last.op
    /\ UNCHANGED <<lock, handler, thandler, cache, out, cli, probe, pc, targ>>

RegisterModel ==
    /\ ~Unwinding
    /\ Len(hooklib.mgrs) < MaxMgrs
    /\ \E model \in UserModules : Returned("register_model",
                                           register_model(S, model))
    /\ UNCHANGED <<scope, pending>>

Cleanup ==
    /\ ~Unwinding
    /\ Returned("cleanup", cleanup(S))
    /\ UNCHANGED <<scope, pending>>

SetRequestContext ==
    /\ ~Unwinding
    /\ \E rid \in RequestIds : Returned("set_request_context",
                                        set_request_context(S, rid))
    /\ UNCHANGED <<scope, pending>>

ClearRequestContext ==
    /\ ~Unwinding
    /\ Returned("clear_request_context", clear_request_context(S))
    /\ UNCHANGED <<scope, pending>>

GetActivationStore ==
    /\ ~Unwinding
    /\ extractor.activation_store = 0 => Len(hooklib.stores) < MaxStores
    /\ Returned("get_activation_store", get_activation_store(S))
    /\ UNCHANGED <<scope, pending>>

ClearActivations ==
    /\ ~Unwinding
    /\ \E request_id \in RequestIds \cup {"None"} :
         Returned("clear_activations", clear_activations(S, request_id))
    /\ UNCHANGED <<scope, pending>>

\* the engine runs a generation over the hooked modules and returns
EngineRuns ==
    /\ ~Unwinding
    /\ Returned("engine", [S EXCEPT !.h = forward(hooklib, Modules)])
    /\ UNCHANGED <<scope, pending>>

\* the engine call raises: inside a with-block the exception unwinds to
\* __exit__, outside it reaches the caller
EngineRaises ==
    /\ ~Unwinding
    /\ extractor' = extractor
    /\ hooklib' = hooklib
    /\ hist' = last.op
    /\ IF scope = "inside"
       THEN /\ pending' = "EngineError"
            /\ last' = [NoCall EXCEPT !.op = "engine"]
       ELSE /\ pending' = pending
            /\ last' = [NoCall EXCEPT !.op = "engine",
                                      !.raised = "EngineError"]
    /\ UNCHANGED <<lock, handler, thandler, cache, out, scope, cli, probe,
                   pc, targ>>

\* with extractor: ... (__enter__, lines 103-105)
WithEnter ==
    /\ scope \in {"none", "left"}
    /\ scope' = "inside"
    /\ pending' = "None"
    /\ Returned("enter", S)

\* leaving the with-block, normally or with the body's exception
\* (__exit__, lines 107-109): the exception propagates unless __exit__
\* returns a true value
WithExit ==
    /\ scope = "inside"
    /\ scope' = "left"
    /\ LET s == exit_(S)
       IN /\ extractor' = s.x
          /\ hooklib' = s.h
    /\ last' = [NoCall EXCEPT !.op = "exit",
                  !.raised = IF exit_returns THEN "None" ELSE pending]
    /\ hist' = last.op
    /\ UNCHANGED <<lock, handler, thandler, cache, out, pending, cli, probe,
                   pc, targ>>

NextExt ==
    \/ RegisterModel
    \/ Cleanup
    \/ SetRequestContext
    \/ ClearRequestContext
    \/ GetActivationStore
    \/ ClearActivations
    \/ EngineRuns
    \/ EngineRaises
    \/ WithEnter
    \/ WithExit

SpecExt == InitExt /\ [][NextExt]_vars

(***************************************************************************)
(* Properties of the extractor under sequential use.                       *)
(***************************************************************************)
\* nothing of the extractor is left: no hooks on any module, no hook
\* manager, no registered module, nothing in its store
Released ==
    /\ Installed(hooklib) = {}
    /\ extractor.hook_manager = 0
    /\ extractor.model = "None"
    /\ extractor.activation_store # 0
         => hooklib.stores[extractor.activation_store] = {}

\* C2: cleanup is idempotent: a cleanup call returns without error with no
\* hooks installed, no hook manager, no module and an empty store, and a
\* cleanup call that directly follows a cleanup call changes nothing.
C2Theorem ==
    [][ last'.op = "cleanup" =>
          /\ last'.raised = "None"
          /\ Released'
          /\ last.op = "cleanup" => (extractor' = extractor /\ hooklib' = hooklib)
      ]_vars

\* cleanup was called twice in a row after several registrations
C2Witness ==
    /\ last.op = "cleanup" /\ hist = "cleanup"
    /\ Len(hooklib.mgrs) >= 2
    /\ extractor.activation_store # 0

\* C3: at most one hook set is installed, and it is the one of the current
\* hook manager; register_model on a disabled extractor changes nothing.
C3Theorem ==
    /\ [](/\ Cardinality(Installed(hooklib)) <= 1
          /\ Installed(hooklib) \subseteq {extractor.hook_manager}
          /\ last.op = "register_model" /\ extractor.enabled
               => Installed(hooklib) = {extractor.hook_manager})
    /\ [][ (last'.op = "register_model" /\ ~extractor.enabled) =>
             /\ extractor' = extractor
             /\ hooklib' = hooklib
             /\ extractor'.hook_manager = 0
             /\ Installed(hooklib') = {} ]_vars

\* a model was registered over an earlier registration
C3Witness ==
    /\ last.op = "register_model" /\ hist = "register_model"
    /\ extractor.enabled
    /\ Len(hooklib.mgrs) >= 2
    /\ Installed(hooklib) = {Len(hooklib.mgrs)}

\* C5: leaving the with-block removes the hooks and empties the store,
\* on normal exit and when the body raised, and the body's exception is
\* what the with statement raises.
C5Theorem ==
    last.op = "exit" =>
        /\ scope = "left"
        /\ Released
        /\ last.raised = pending

\* the with-block was left by an exception of the body while hooks had
\* been registered
C5Witness ==
    /\ last.op = "exit" /\ hist = "engine" /\ pending = "EngineError"
    /\ last.raised = "EngineError"
    /\ Len(hooklib.mgrs) >= 1
    /\ extractor.activation_store # 0

(***************************************************************************)
(* One ActivationExtractor shared by threads, statement by                 *)
(* statement.  pc[t] names the statement thread t executes next.           *)
(***************************************************************************)
InitConc ==
    /\ \E enabled \in BOOLEAN : extractor = NewExtractor(<<>>, enabled)
    /\ hooklib = NoLib
    /\ lock = 0
    /\ handler = NoHandler
    /\ thandler = NoTHandler
    /\ cache = [exists |-> FALSE, entries |-> {}]
    /\ out = <<>>
    /\ last = NoCall
    /\ hist = "none"
    /\ scope = "none"
    /\ pending = "None"
    /\ cli = NoCli
    /\ probe = NoProbe
    /\ pc = [t \in Threads |-> "idle"]
    /\ targ = [t \in Threads |-> "None"]

\* thread t moves to statement l, leaving the extractor state s
Step(t, l, s) ==
    /\ pc' = [pc EXCEPT ![t] = l]
    /\ extractor' = s.x
    /\ hooklib' = s.h
    /\ UNCHANGED <<handler, thandler, cache, out, last, hist, scope, pending,
                   cli, probe>>

\* the register_model calls that have not built their hook manager yet
Registering ==
    { t \in Threads : pc[t] \in {"reg_lock", "reg_store", "reg_remove",
                                 "reg_model", "reg_manager"} }

\* register_model(model), lines 45-49
RegCall(t) ==
    /\ pc[t] = "idle"
    /\ Len(hooklib.mgrs) + Cardinality(Registering) < MaxMgrs
    /\ \E model \in UserModules :
         targ' = [targ EXCEPT ![t] = IF extractor.enabled
                                     THEN model ELSE "None"]
    /\ Step(t, IF ~extractor.enabled THEN "idle" ELSE "reg_lock", S)
    /\ UNCHANGED lock

\* line 51
RegLock(t) ==
    /\ pc[t] = "reg_lock"
    /\ can_acquire(lock)
    /\ lock' = t
    /\ Step(t, "reg_store", S)
    /\ UNCHANGED targ

\* lines 53-54
RegStore(t) ==
    /\ pc[t] = "reg_store"
    /\ extractor.activation_store = 0 => Len(hooklib.stores) < MaxStores
    /\ Step(t, "reg_remove", reg_store(S))
    /\ UNCHANGED <<lock, targ>>

\* lines 56-57
RegRemove(t) ==
    /\ pc[t] = "reg_remove"
    /\ Step(t, "reg_model", reg_remove(S))
    /\ UNCHANGED <<lock, targ>>

\* line 59
RegModel(t) ==
    /\ pc[t] = "reg_model"
    /\ Step(t, "reg_manager", reg_model(S, targ[t]))
    /\ UNCHANGED <<lock, targ>>

\* lines 60-63
RegManager(t) ==
    /\ pc[t] = "reg_manager"
    /\ Step(t, "reg_hooks", reg_manager(S))
    /\ UNCHANGED <<lock, targ>>

\* line 64, and the end of the with block
RegHooks(t) ==
    /\ pc[t] = "reg_hooks"
    /\ Step(t, "idle", reg_hooks(S, targ[t]))
    /\ lock' = 0
    /\ targ' = [targ EXCEPT ![t] = "None"]

\* cleanup(), line 95
ClnLock(t) ==
    /\ pc[t] = "idle"
    /\ can_acquire(lock)
    /\ lock' = t
    /\ Step(t, "cln_hooks", S)
    /\ UNCHANGED targ

\* lines 96-97
ClnRemove(t) ==
    /\ pc[t] = "cln_hooks"
    /\ IF extractor.hook_manager # 0
       THEN Step(t, "cln_manager", cln_remove(S))
       ELSE Step(t, "cln_store", S)
    /\ UNCHANGED <<lock, targ>>

\* line 98
ClnManager(t) ==
    /\ pc[t] = "cln_manager"
    /\ Step(t, "cln_store", cln_manager(S))
    /\ UNCHANGED <<lock, targ>>

\* lines 99-100
ClnStore(t) ==
    /\ pc[t] = "cln_store"
    /\ Step(t, "cln_model", cln_store(S))
    /\ UNCHANGED <<lock, targ>>

\* line 101, and the end of the with block
ClnModel(t) ==
    /\ pc[t] = "cln_model"
    /\ Step(t, "idle", cln_model(S))
    /\ lock' = 0
    /\ UNCHANGED targ

\* set_request_context([request_id]), line 68
CtxCheck(t) ==
    /\ pc[t] = "idle"
    /\ \E rid \in RequestIds :
         targ' = [targ EXCEPT ![t] = IF extractor.hook_manager # 0
                                     THEN rid ELSE "None"]
    /\ Step(t, IF extractor.hook_manager # 0 THEN "ctx_set" ELSE "idle", S)
    /\ UNCHANGED lock

\* line 69: self.hook_manager is read again; None has no such method
CtxSet(t) ==
    /\ pc[t] = "ctx_set"
    /\ IF extractor.hook_manager # 0
       THEN Step(t, "idle", set_request_context(S, targ[t]))
       ELSE Step(t, "AttributeError", S)
    /\ targ' = [targ EXCEPT ![t] = "None"]
    /\ UNCHANGED lock

\* clear_request_context(), line 73
ClrCheck(t) ==
    /\ pc[t] = "idle"
    /\ Step(t, IF extractor.hook_manager # 0 THEN "clr_clear" ELSE "idle", S)
    /\ UNCHANGED <<lock, targ>>

\* line 74
ClrClear(t) ==
    /\ pc[t] = "clr_clear"
    /\ IF extractor.hook_manager # 0
       THEN Step(t, "idle", clear_request_context(S))
       ELSE Step(t, "AttributeError", S)
    /\ UNCHANGED <<lock, targ>>

\* the AttributeError reaches the thread's caller
Raised(t) ==
    /\ pc[t] = "AttributeError"
    /\ Step(t, "idle", S)
    /\ UNCHANGED <<lock, targ>>

\* get_activation_store(), line 79
GasCheck(t) ==
    /\ pc[t] = "idle"
    /\ Step(t, IF extractor.activation_store = 0 THEN "gas_new" ELSE "idle", S)
    /\ UNCHANGED <<lock, targ>>

\* lines 80-81
GasNew(t) ==
    /\ pc[t] = "gas_new"
    /\ Len(hooklib.stores) < MaxStores
    /\ Step(t, "idle", store_new(S))
    /\ UNCHANGED <<lock, targ>>

NextConc ==
    \E t \in Threads :
        \/ RegCall(t)
        \/ RegLock(t)
        \/ RegStore(t)
        \/ RegRemove(t)
        \/ RegModel(t)
        \/ RegManager(t)
        \/ RegHooks(t)
        \/ ClnLock(t)
        \/ ClnRemove(t)
        \/ ClnManager(t)
        \/ ClnStore(t)
        \/ ClnModel(t)
        \/ CtxCheck(t)
        \/ CtxSet(t)
        \/ ClrCheck(t)
        \/ ClrClear(t)
        \/ Raised(t)
        \/ GasCheck(t)
        \/ GasNew(t)

SpecConc == InitConc /\ [][NextConc]_vars

(***************************************************************************)
(* Properties of the extractor under concurrent use.                       *)
(***************************************************************************)
\* the hook state is whole: a hook manager with its hooks installed and no
\* others, or no hook manager and no hooks
Consistent ==
    \/ extractor.hook_manager = 0 /\ Installed(hooklib) = {}
    \/ extractor.hook_manager # 0
         /\ Installed(hooklib) = {extractor.hook_manager}

\* the statements at which a call looks at the hook state: the first
\* statement of register_model and cleanup under the lock, and the reads of
\* self.hook_manager in set_request_context and clear_request_context
LockedObservers == {"reg_store", "cln_hooks"}
ContextObservers == {"ctx_set", "clr_clear"}

\* C4 (as stated): no call ever observes a partially removed or partially
\* installed hook set, be it register_model, cleanup, set_request_context
\* or clear_request_context.
C4Claim ==
    \A t \in Threads :
        pc[t] \in LockedObservers \cup ContextObservers => Consistent

\* C4 (amended): register_model and cleanup never interleave: whenever the
\* lock is free, and whenever a register_model or cleanup call has just
\* taken it, the hook state is whole, and at most one thread is inside a
\* locked section.
C4Theorem ==
    /\ lock = 0 => Consistent
    /\ \A t \in Threads : pc[t] \in LockedObservers => Consistent
    /\ Cardinality({ t \in Threads :
                       pc[t] \in {"reg_store", "reg_remove", "reg_model",
                                  "reg_manager", "reg_hooks", "cln_hooks",
                                  "cln_manager", "cln_store", "cln_model"} })
         <= 1

\* a cleanup has just taken the lock over an installed hook set while a
\* register_model call of another thread waits for the lock
C4Witness ==
    \E t, u \in Threads :
        /\ pc[t] = "cln_hooks" /\ pc[u] = "reg_lock"
        /\ lock = t
        /\ extractor.hook_manager # 0
        /\ Len(hooklib.mgrs) >= 2

(***************************************************************************)
(* The activation/probe CLI (inference.py 23-95).  An option that was not  *)
(* given is <<>>, an option given the value v is <<v>>.                    *)
(***************************************************************************)
\* the characters an --extract-layers value is made of
OptChars == {"1", "-", ",", " ", "x"}
OptStrings == UNION { [1..n -> OptChars] : n \in 0..MaxOptLen }
CliModelName == <<"a", "/", "t">>
\* the engines the CLI is run against
CliEngines ==
    { e \in Engines : /\ e.workers = "absent"
                      /\ e.driver \in {"absent", "Md"}
                      /\ e.executor = (e.driver # "absent") }

RECURSIVE split(_)
\* str.split(',')
split(s) ==
    IF \A i \in 1..Len(s) : s[i] # ","
    THEN <<s>>
    ELSE LET i == CHOOSE j \in 1..Len(s) :
                      s[j] = "," /\ \A k \in 1..(j - 1) : s[k] # ","
         IN <<SubSeq(s, 1, i - 1)>> \o split(SubSeq(s, i + 1, Len(s)))

RECURSIVE lstrip(_)
lstrip(s) == IF s # <<>> /\ Head(s) = " " THEN lstrip(Tail(s)) ELSE s
RECURSIVE rstrip(_)
rstrip(s) ==
    IF s # <<>> /\ s[Len(s)] = " " THEN rstrip(SubSeq(s, 1, Len(s) - 1)) ELSE s
\* str.strip()
strip(s) == rstrip(lstrip(s))

RECURSIVE digits_value(_)
digits_value(s) ==
    IF s = <<>> THEN 0 ELSE 10 * digits_value(SubSeq(s, 1, Len(s) - 1)) + 1

\* int(x): <<n>> for the integer n, <<>> when int raises ValueError
int_(x) ==
    LET body == IF x # <<>> /\ Head(x) = "-" THEN Tail(x) ELSE x
    IN IF body # <<>> /\ \A i \in 1..Len(body) : body[i] = "1"
       THEN << (IF x[1] = "-" THEN -1 ELSE 1) * digits_value(body) >>
       ELSE <<>>

\* [int(x.strip()) for x in extract_layers.split(',')], line 30
parse_layers(s) ==
    LET items == split(s)
        ints == [i \in 1..Len(items) |-> int_(strip(items[i]))]
    IN IF \E i \in 1..Len(ints) : ints[i] = <<>>
       THEN [raised |-> "ValueError", list |-> <<>>]
       ELSE [raised |-> "None", list |-> [i \in 1..Len(ints) |-> ints[i][1]]]

\* a probe check that lets every combination through
probe_layer_missing_never(probe_path, probe_layer) == FALSE

\* probe_path and probe_layer is None, line 36
probe_layer_missing(probe_path, probe_layer) ==
    /\ probe_path # <<>> /\ probe_path[1] # ""
    /\ probe_layer = <<>>

\* main, lines 26-38: where main is after the validation, what it echoed
\* and the layer list it goes on with
validate(a) ==
    LET given == a.extract_layers # <<>> /\ a.extract_layers[1] # <<>>
        parsed == IF given THEN parse_layers(a.extract_layers[1])
                  ELSE [raised |-> "None", list |-> <<>>]
    IN IF parsed.raised = "ValueError"
       THEN [at |-> "usage_error", list |-> <<>>,
             out |-> <<"Error: --extract-layers must be comma-separated integers">>]
       ELSE IF probe_layer_missing(a.probe_path, a.probe_layer)
       THEN [at |-> "usage_error", list |-> parsed.list,
             out |-> <<"Error: --probe-layer is required when --probe-path is set">>]
       ELSE [at |-> "validated", list |-> parsed.list, out |-> <<>>]

InitCli ==
    /\ extractor = NoExtractor
    /\ hooklib = NoLib
    /\ lock = 0
    /\ handler = NoHandler
    /\ thandler = NoTHandler
    /\ cache \in { c \in Caches : c.entries \subseteq
                                    {hf_to_cache_format(CliModelName)} }
    /\ out = <<>>
    /\ last = NoCall
    /\ hist = "none"
    /\ scope = "none"
    /\ pending = "None"
    /\ \E extract_activations \in BOOLEAN,
          extract_layers \in {<<>>} \cup { <<s>> : s \in OptStrings },
          probe_path \in {<<>>, <<"">>, <<"probe.pt">>},
          probe_layer \in {<<>>, <<0>>} :
         cli = [at |-> "start", extract_activations |-> extract_activations,
                extract_layers |-> extract_layers, probe_path |-> probe_path,
                probe_layer |-> probe_layer, extract_layers_list |-> <<>>]
    /\ probe = NoProbe
    /\ pc = [t \in Threads |-> "idle"]
    /\ targ = [t \in Threads |-> "None"]

\* main, lines 26-38
CliValidate ==
    /\ cli.at = "start"
    /\ LET v == validate(cli)
       IN /\ cli' = [cli EXCEPT !.at = v.at, !.extract_layers_list = v.list]
          /\ out' = v.out
    /\ UNCHANGED <<extractor, hooklib, lock, handler, thandler, cache, last,
                   hist, scope, pending, probe, pc, targ>>

\* main, lines 41-45
CliConstruct ==
    /\ cli.at = "validated"
    /\ \E load_ok \in BOOLEAN :
       \E e \in (IF load_ok THEN CliEngines ELSE {NoEngine}) :
         LET r == load_model([model_name |-> CliModelName,
                              local_files_only |-> FALSE,
                              extract_activations |-> cli.extract_activations,
                              extract_layers |-> cli.extract_layers_list],
                             cache, hooklib, e, load_ok)
         IN /\ handler' = r.handler
            /\ extractor' = r.s.x
            /\ hooklib' = r.s.h
            /\ cache' = r.cache
            /\ out' = r.out
            /\ last' = r.call
            /\ cli' = [cli EXCEPT !.at = IF r.call.raised = "None"
                                         THEN "constructed" ELSE "crashed"]
    /\ UNCHANGED <<lock, thandler, hist, scope, pending, probe, pc, targ>>

\* main, lines 48-49
CliGenerate ==
    /\ cli.at = "constructed"
    /\ \E rid \in RequestIds, outcome \in {"ok", "engine_error"} :
         LET r == generate(handler, S, rid, outcome)
         IN /\ extractor' = r.s.x
            /\ hooklib' = r.s.h
            /\ last' = r.call
            /\ out' = IF r.call.raised = "None" THEN <<"Generated text">>
                      ELSE <<>>
            /\ cli' = [cli EXCEPT !.at = IF r.call.raised = "None"
                                         THEN "generated" ELSE "crashed"]
    /\ UNCHANGED <<lock, handler, thandler, cache, hist, scope, pending,
                   probe, pc, targ>>

\* main, lines 52-95: the report on the store and the probe; what the probe
\* file and the store hold decides which of the probe messages is printed
CliReport ==
    /\ cli.at = "generated"
    /\ LET s == IF cli.extract_activations
                THEN handler_get_activation_store(handler, S) ELSE S
           captured == /\ s.x.activation_store # 0
                       /\ s.h.stores[s.x.activation_store] # {}
       IN /\ extractor' = s.x
          /\ hooklib' = s.h
          /\ \E probed \in {"Probe output", "Warning: No activation found",
                            "Warning: No token positions",
                            "Error computing probe"} :
               out' = IF ~cli.extract_activations THEN <<>>
                      ELSE IF s.x.activation_store = 0
                      THEN <<"Warning: activation store is not available">>
                      ELSE IF ~captured THEN <<"Activation extraction stats">>
                      ELSE IF cli.probe_path # <<>> /\ cli.probe_path[1] # ""
                              /\ cli.probe_layer # <<>>
                      THEN <<"Activation extraction stats", probed>>
                      ELSE <<"Activation extraction stats", "Tip">>
    /\ cli' = [cli EXCEPT !.at = "done"]
    /\ UNCHANGED <<lock, handler, thandler, cache, last, hist, scope, pending,
                   probe, pc, targ>>

NextCli ==
    \/ CliValidate
    \/ CliConstruct
    \/ CliGenerate
    \/ CliReport

SpecCli == InitCli /\ [][NextCli]_vars

(***************************************************************************)
(* Properties of the CLI.                                                  *)
(***************************************************************************)
RECURSIVE Scan(_, _)
\* s, read from state st of a scanner for comma-separated integers, is
\* accepted; st is "lead" before an item's digits, "sign" after its sign,
\* "num" inside its digits, "trail" in the blanks after them
Scan(s, st) ==
    IF s = <<>> THEN st \in {"num", "trail"}
    ELSE CASE Head(s) = "1" ->
                st # "trail" /\ Scan(Tail(s), "num")
           [] Head(s) = "-" ->
                st = "lead" /\ Scan(Tail(s), "sign")
           [] Head(s) = " " ->
                st # "sign" /\ Scan(Tail(s), IF st = "num" THEN "trail" ELSE st)
           [] Head(s) = "," ->
                st \in {"num", "trail"} /\ Scan(Tail(s), "lead")
           [] OTHER -> FALSE

\* --extract-layers was given a non-empty value that is not
\* comma-separated integers
LayersMalformed ==
    /\ cli.extract_layers # <<>>
    /\ cli.extract_layers[1] # <<>>
    /\ ~Scan(cli.extract_layers[1], "lead")

\* --probe-path was given a (non-empty) path and --probe-layer was not given
ProbeLayerMissing ==
    /\ cli.probe_path \notin {<<>>, <<"">>}
    /\ cli.probe_layer = <<>>

\* C9: with --probe-path set and --probe-layer not, or with an
\* --extract-layers value that is not comma-separated integers, main
\* reports the usage error and returns with no ModelHandler constructed and
\* no generation; a handler is constructed and generate called only in runs
\* whose options passed both validations.
C9Theorem ==
    /\ (LayersMalformed \/ ProbeLayerMissing) =>
         /\ cli.at \in {"start", "usage_error"}
         /\ ~handler.exists /\ ~handler.loaded
         /\ last.op = "none"
         /\ cli.at = "usage_error" =>
              Printed(IF LayersMalformed
                      THEN "Error: --extract-layers must be comma-separated integers"
                      ELSE "Error: --probe-layer is required when --probe-path is set")
    /\ (cli.at \in {"validated", "constructed", "generated", "done", "crashed"}
        \/ handler.exists \/ last.op \in {"construct", "generate"})
         => ~LayersMalformed /\ ~ProbeLayerMissing

\* main has returned with the probe usage error, the layers being well
\* formed
C9Witness ==
    /\ cli.at = "usage_error"
    /\ ProbeLayerMissing /\ ~LayersMalformed
    /\ cli.extract_layers # <<>> /\ Len(cli.extract_layers[1]) = MaxOptLen
    /\ ~handler.exists

(***************************************************************************)
(* Probe evaluator (activation_extraction.py 112-125).  A tensor is its    *)
(* shape and its entries in row-major order; a 0-dim tensor has shape <<>> *)
(* and one entry.                                                          *)
(***************************************************************************)
Vals == -MaxVal..MaxVal
Scalars == { [shape |-> <<>>, data |-> <<v>>] : v \in Vals }
Vectors(n) == { [shape |-> <<n>>, data |-> f] : f \in [1..n -> Vals] }
Matrices(r, n) == { [shape |-> <<r, n>>, data |-> f] : f \in [1..(r * n) -> Vals] }

\* Tensor.dim()
dim(x) == Len(x.shape)

RECURSIVE dot_data(_, _)
dot_data(a, b) ==
    IF a = <<>> THEN 0 ELSE Head(a) * Head(b) + dot_data(Tail(a), Tail(b))

\* torch.dot: both 1-D with the same number of elements
dot(a, b) ==
    IF dim(a) = 1 /\ dim(b) = 1 /\ a.shape = b.shape
    THEN [raised |-> "None",
          out |-> [shape |-> <<>>, data |-> <<dot_data(a.data, b.data)>>]]
    ELSE [raised |-> "RuntimeError", out |-> [shape |-> <<>>, data |-> <<0>>]]

\* row r of a 2-D tensor
row(m, r) == SubSeq(m.data, (r - 1) * m.shape[2] + 1, r * m.shape[2])

\* torch.matmul of a 2-D tensor and a 1-D tensor (a 0-dim argument raises;
\* 1-D by 1-D is the dot product)
matmul(m, a) ==
    IF dim(m) = 2 /\ dim(a) = 1 /\ m.shape[2] = a.shape[1]
    THEN [raised |-> "None",
          out |-> [shape |-> <<m.shape[1]>>,
                   data |-> [r \in 1..m.shape[1] |-> dot_data(row(m, r), a.data)]]]
    ELSE IF dim(m) = 1 /\ dim(a) = 1 THEN dot(m, a)
    ELSE [raised |-> "RuntimeError", out |-> [shape |-> <<>>, data |-> <<0>>]]

\* output + probe_bias with broadcasting, for tensors of at most one dim
add(x, b) ==
    LET nx == IF dim(x) = 0 THEN 1 ELSE x.shape[1]
        nb == IF dim(b) = 0 THEN 1 ELSE b.shape[1]
        n == IF nx >= nb THEN nx ELSE nb
        at(v, nv, i) == IF nv = 1 THEN v.data[1] ELSE v.data[i]
    IN IF nx # nb /\ nx # 1 /\ nb # 1
       THEN [raised |-> "RuntimeError",
             out |-> [shape |-> <<>>, data |-> <<0>>]]
       ELSE [raised |-> "None",
             out |-> [shape |-> IF dim(x) = 0 /\ dim(b) = 0 THEN <<>> ELSE <<n>>,
                      data |-> [i \in 1..n |-> at(x, nx, i) + at(b, nb, i)]]]

\* an evaluator that drops the bias
add_bias_dropped(r, probe_bias) == r

\* lines 117-118 and 123-124; probe_bias is <<>> for None
add_bias(r, probe_bias) ==
    IF r.raised = "None" /\ probe_bias # <<>> THEN add(r.out, probe_bias[1])
    ELSE r

compute_probe(activation, probe_weights, probe_bias) ==
    IF dim(probe_weights) = 1
    THEN add_bias(dot(activation, probe_weights), probe_bias)
    ELSE add_bias(matmul(probe_weights, activation), probe_bias)

InitProbe ==
    /\ extractor = NoExtractor
    /\ hooklib = NoLib
    /\ lock = 0
    /\ handler = NoHandler
    /\ thandler = NoTHandler
    /\ cache = [exists |-> FALSE, entries |-> {}]
    /\ out = <<>>
    /\ last = NoCall
    /\ hist = "none"
    /\ scope = "none"
    /\ pending = "None"
    /\ cli = NoCli
    /\ \E d \in 1..MaxDim, dw \in 1..MaxDim, r \in 0..MaxRows :
       \E activation \in Vectors(d),
          weights \in (IF r = 0 THEN Vectors(dw) \cup Scalars
                       ELSE Matrices(r, dw)),
          bias \in {<<>>} \cup { <<b>> : b \in Scalars }
                   \cup { <<b>> : b \in Vectors(IF r = 0 THEN 1 ELSE r) } :
         probe = [at |-> "start", activation |-> activation,
                  weights |-> weights, bias |-> bias,
                  raised |-> "None",
                  output |-> [shape |-> <<>>, data |-> <<0>>]]
    /\ pc = [t \in Threads |-> "idle"]
    /\ targ = [t \in Threads |-> "None"]

\* compute_probe(activation, probe_weights, probe_bias)
ComputeProbe ==
    /\ probe.at = "start"
    /\ LET r == compute_probe(probe.activation, probe.weights, probe.bias)
       IN probe' = [probe EXCEPT !.at = "computed", !.raised = r.raised,
                                 !.output = r.out]
    /\ UNCHANGED <<extractor, hooklib, lock, handler, thandler, cache, out,
                   last, hist, scope, pending, cli, pc, targ>>

NextProbe == ComputeProbe

SpecProbe == InitProbe /\ [][NextProbe]_vars

(***************************************************************************)
(* Properties of the probe evaluator.                                      *)
(***************************************************************************)
RECURSIVE SumOf(_)
\* the sum of the entries of a sequence
SumOf(q) ==
    IF Len(q) = 0 THEN 0 ELSE SumOf(SubSeq(q, 1, Len(q) - 1)) + q[Len(q)]

\* the bias added to entry r of the result
BiasAt(r) ==
    IF probe.bias = <<>> THEN 0
    ELSE IF Len(probe.bias[1].shape) = 0 THEN probe.bias[1].data[1]
    ELSE probe.bias[1].data[r]

\* the length of the activation
D == probe.activation.shape[1]

\* rank-1 weights of the activation's length, with no bias or a scalar bias
Rank1Case ==
    /\ probe.weights.shape = <<D>>
    /\ probe.bias = <<>> \/ probe.bias[1].shape = <<>>

\* rank-2 weights whose rows have the activation's length, with no bias, a
\* scalar bias or one bias entry per row
Rank2Case ==
    /\ Len(probe.weights.shape) = 2
    /\ probe.weights.shape[2] = D
    /\ \/ probe.bias = <<>>
       \/ probe.bias[1].shape = <<>>
       \/ probe.bias[1].shape = <<probe.weights.shape[1]>>

\* C10: compute_probe is the linear map: for rank-1 weights the scalar
\* sum_i activation[i]*weights[i] plus the bias if given, for rank-2
\* weights of shape RxD the vector of length R whose r-th entry is
\* sum_i weights[r][i]*activation[i] plus the bias if given.
C10Theorem ==
    probe.at = "computed" =>
      /\ Rank1Case =>
           /\ probe.raised = "None"
           /\ probe.output.shape = <<>>
           /\ probe.output.data =
                << SumOf([i \in 1..D |->
                            probe.activation.data[i] * probe.weights.data[i]])
                   + BiasAt(1) >>
      /\ Rank2Case =>
           /\ probe.raised = "None"
           /\ probe.output.shape = <<probe.weights.shape[1]>>
           /\ \A r \in 1..probe.weights.shape[1] :
                probe.output.data[r] =
                  SumOf([i \in 1..D |->
                           probe.weights.data[(r - 1) * D + i]
                           * probe.activation.data[i]])
                  + BiasAt(r)

\* a two-row probe with a bias per row was evaluated on an activation of
\* length two, with non-zero entries
C10Witness ==
    /\ probe.at = "computed" /\ Rank2Case
    /\ probe.weights.shape = <<2, 2>> /\ probe.bias # <<>>
    /\ probe.bias[1].shape = <<2>>
    /\ probe.output.data = <<2, -3>>

\* the stores in use: the one the extractor holds and those the installed
\* hooks write into
LiveStores ==
    ({extractor.activation_store} \ {0})
    \cup { hooklib.mgrs[k].store : k \in Installed(hooklib) }

\* C13: an extractor has at most one activation store, and while hooks are
\* installed the store their hook manager writes into is the store that
\* get_activation_store returns; get_activation_store never replaces or
\* duplicates a store created by register_model.
C13Claim ==
    /\ Cardinality(LiveStores) <= 1
    /\ (extractor.hook_manager # 0
        /\ extractor.hook_manager \in Installed(hooklib))
         => hooklib.mgrs[extractor.hook_manager].store
              = extractor.activation_store


(***************************************************************************)
(* Probe loading (activation_extraction.py 128-143).  A checkpoint that is *)
(* a mapping is a function from the keys it holds to their values; any     *)
(* other checkpoint is the object itself.  "None" is Python's None.        *)
(***************************************************************************)
CheckpointKeys == {"weight", "weights", "bias", "epoch"}
CheckpointValues == {"None", "T1", "T2", "T3"}
\* what torch.load may return
Checkpoints ==
    { [is_dict |-> TRUE, items |-> m, object |-> "None"] :
        m \in UNION { [K -> CheckpointValues] : K \in SUBSET CheckpointKeys } }
    \cup
    { [is_dict |-> FALSE, items |-> <<>>, object |-> v] :
        v \in CheckpointValues }

\* dict.get(key, default)
get(m, key, default) == IF key \in DOMAIN m THEN m[key] ELSE default

\* a lookup that prefers "weights" to "weight"
get_weights_plural_first(m) == get(m, "weights", get(m, "weight", "None"))

\* line 133
get_weights(m) == get(m, "weight", get(m, "weights", "None"))
\* line 134
get_bias(m) == get(m, "bias", get(m, "bias", "None"))

load_probe_from_file(checkpoint) ==
    LET weights == IF checkpoint.is_dict THEN get_weights(checkpoint.items)
                   ELSE checkpoint.object
        bias == IF checkpoint.is_dict THEN get_bias(checkpoint.items)
                ELSE "None"
    IN IF weights = "None"
       THEN [raised |-> "ValueError", weights |-> "None", bias |-> "None"]
       ELSE [raised |-> "None", weights |-> weights, bias |-> bias]

InitLoad ==
    /\ extractor = NoExtractor
    /\ hooklib = NoLib
    /\ lock = 0
    /\ handler = NoHandler
    /\ thandler = NoTHandler
    /\ cache = [exists |-> FALSE, entries |-> {}]
    /\ out = <<>>
    /\ last = NoCall
    /\ hist = "none"
    /\ scope = "none"
    /\ pending = "None"
    /\ cli = NoCli
    /\ \E checkpoint \in Checkpoints :
         probe = [at |-> "start", checkpoint |-> checkpoint,
                  raised |-> "None", weights |-> "None", bias |-> "None"]
    /\ pc = [t \in Threads |-> "idle"]
    /\ targ = [t \in Threads |-> "None"]

\* load_probe_from_file(probe_path)
LoadProbe ==
    /\ probe.at = "start"
    /\ LET r == load_probe_from_file(probe.checkpoint)
       IN probe' = [probe EXCEPT !.at = "loaded", !.raised = r.raised,
                                 !.weights = r.weights, !.bias = r.bias]
    /\ UNCHANGED <<extractor, hooklib, lock, handler, thandler, cache, out,
                   last, hist, scope, pending, cli, pc, targ>>

NextLoad == LoadProbe

SpecLoad == InitLoad /\ [][NextLoad]_vars

(***************************************************************************)
(* Properties of probe loading.                                            *)
(***************************************************************************)
Items == probe.checkpoint.items
Has(key) == key \in DOMAIN Items
\* the load returned the pair (w, b)
LoadReturned(w, b) ==
    probe.raised = "None" /\ probe.weights = w /\ probe.bias = b
LoadFailed == probe.raised = "ValueError"
\* the value under "bias", or no bias
BiasEntry == IF Has("bias") THEN Items["bias"] ELSE "None"
\* the entry the weights are taken from
WeightsKey == IF Has("weight") THEN "weight" ELSE "weights"

\* C11 (as stated): a mapping yields the value under "weight" when that
\* key is present, otherwise the value under "weights", with the value
\* under "bias" or no bias; a mapping with neither key fails with a
\* ValueError; a checkpoint that is not a mapping is returned whole as the
\* weights, with no bias.
C11Claim ==
    probe.at = "loaded" =>
      IF probe.checkpoint.is_dict
      THEN IF Has("weight") \/ Has("weights")
           THEN LoadReturned(Items[WeightsKey], BiasEntry)
           ELSE LoadFailed
      ELSE LoadReturned(probe.checkpoint.object, "None")

\* C11 (amended): as stated when the value so selected is not None; when
\* it is None (the entry holds None, or the checkpoint itself is None) the
\* load fails with the ValueError, as it does for a mapping with neither
\* key.
C11Theorem ==
    probe.at = "loaded" =>
      IF probe.checkpoint.is_dict
      THEN IF (Has("weight") \/ Has("weights")) /\ Items[WeightsKey] # "None"
           THEN LoadReturned(Items[WeightsKey], BiasEntry)
           ELSE LoadFailed
      ELSE IF probe.checkpoint.object # "None"
           THEN LoadReturned(probe.checkpoint.object, "None")
           ELSE LoadFailed

\* a mapping holding "weights" but not "weight", and a bias, was loaded
C11Witness ==
    /\ probe.at = "loaded" /\ probe.checkpoint.is_dict
    /\ Has("weights") /\ ~Has("weight") /\ Has("bias")
    /\ LoadReturned("T2", "T3")

(***************************************************************************)
(* The cache locator on its own (models.py 152-171).  load_model asks it   *)
(* on a handler whose __init__ has stored model_name, whatever the cache   *)
(* directory holds at that time.  A cache records the models whose         *)
(* download put an entry in it, next to the entries themselves.            *)
(***************************************************************************)
SegChars == {"a", "-"}
\* the organisation or model part of a name: no "/" in it
Segments == UNION { [1..n -> SegChars] : n \in 1..MaxSeg }
\* "org/model"
TwoSegmentNames == { o \o <<"/">> \o m : o \in Segments, m \in Segments }

\* the cache directory after the models ms were downloaded into it, with
\* the other entries o
CacheHolding(ms, o) ==
    [exists |-> TRUE, models |-> ms,
     entries |-> { hf_to_cache_format(m) : m \in ms } \cup o]

LocatorCaches ==
    { [exists |-> FALSE, models |-> {}, entries |-> {}] }
    \cup { CacheHolding({}, o) : o \in {{}, OtherEntries} }
    \cup { CacheHolding({m}, {}) : m \in TwoSegmentNames }

InitCache ==
    /\ extractor = NoExtractor
    /\ hooklib = NoLib
    /\ lock = 0
    /\ \E model_name \in TwoSegmentNames :
         handler = [NoHandler EXCEPT !.model_name = model_name]
    /\ thandler = NoTHandler
    /\ cache \in LocatorCaches
    /\ out = <<>>
    /\ last = [op |-> "none", raised |-> "None", result |-> "None"]
    /\ hist = "none"
    /\ scope = "none"
    /\ pending = "None"
    /\ cli = NoCli
    /\ probe = NoProbe
    /\ pc = [t \in Threads |-> "idle"]
    /\ targ = [t \in Threads |-> "None"]

\* self.check_model_in_cache()
CheckModelInCache ==
    /\ last' = [op |-> "check_model_in_cache", raised |-> "None",
                result |-> check_model_in_cache(cache, handler.model_name)]
    /\ UNCHANGED <<extractor, hooklib, lock, handler, thandler, cache, out,
                   hist, scope, pending, cli, probe, pc, targ>>

\* self.list_models_in_cache()
ListModelsInCache ==
    /\ last' = [op |-> "list_models_in_cache", raised |-> "None",
                result |-> list_models_in_cache(cache)]
    /\ UNCHANGED <<extractor, hooklib, lock, handler, thandler, cache, out,
                   hist, scope, pending, cli, probe, pc, targ>>

NextCache == CheckModelInCache \/ ListModelsInCache

SpecCache == InitCache /\ [][NextCache]_vars

(***************************************************************************)
(* Properties of the cache locator.                                        *)
(***************************************************************************)
SlashAt(name) == CHOOSE i \in 1..Len(name) : name[i] = "/"
OrgOf(name) == SubSeq(name, 1, SlashAt(name) - 1)
ModelOf(name) == SubSeq(name, SlashAt(name) + 1, Len(name))
\* a part that neither starts nor ends with "-" and holds no "--"
PlainSegment(seg) ==
    /\ seg[1] # "-"
    /\ seg[Len(seg)] # "-"
    /\ \A i \in 1..(Len(seg) - 1) : ~(seg[i] = "-" /\ seg[i + 1] = "-")
PlainName(name) == PlainSegment(OrgOf(name)) /\ PlainSegment(ModelOf(name))

\* the key is "models--org--model"
KeyFormat(name) ==
    hf_to_cache_format(name)
      = ModelsPrefix \o OrgOf(name) \o <<"-", "-">> \o ModelOf(name)

\* with an empty or absent cache directory the check is False and the
\* listing is empty, without raising
EmptyCacheCase ==
    (~cache.exists \/ cache.entries = {}) =>
      /\ last.raised = "None"
      /\ last.op = "check_model_in_cache" => last.result = FALSE
      /\ last.op = "list_models_in_cache" => last.result = {}

====
